---- MODULE Spec2Model ----
(***************************************************************************)
(* Model of the lyric timeline / layout / frame renderer of lyric-mv.      *)
(*                                                                         *)
(* Time is counted in ticks of 0.1 s (0.3 s = 3 ticks, 3.0 s = 30 ticks).  *)
(* An animation progress is kept as its numerator over the animation       *)
(* duration of the call that produced it: the value p stands for p / A,    *)
(* so 0.0 is 0 and 1.0 is A.                                               *)
(* A text is the sequence of its lines (text.split('\n')); a line is the   *)
(* pixel width the font measures for it, 0 for a line that is blank.       *)
(***************************************************************************)
EXTENDS Integers, Sequences, FiniteSets, TLC

VARIABLES
    \* ---- LyricTimeline (src/lyric_timeline.py) ----
    lyrics_data,      \* self.lyrics_data: entries sorted by start time
    query,            \* arguments of the last get_content_at_time call
    active_lyrics,    \* list returned by the last get_content_at_time call
    processed_lyrics, \* self._processed_lyrics
    max_lines,        \* self._max_lines
    processed_call,   \* argument and result of the last get_processed_lyrics
    \* ---- LayoutEngine / VerticalStackStrategy (src/layout_engine.py) ----
    elements,         \* LayoutEngine.elements
    spacing,          \* VerticalStackStrategy.spacing
    start_y,          \* VerticalStackStrategy.start_y
    layout_result,    \* what the last operation returned, if a LayoutResult
    lastop,           \* the last LayoutEngine operation and its outcome
    conflicts,        \* what the last operation returned, if a list of notes
    \* ---- LyricClip (src/lyric_clip.py) ----
    timelines,        \* LyricClip.timelines, each with its text cache
    background,       \* LyricClip.background
    frame_buffer,     \* LyricClip.frame_buffer
    render_t,         \* argument of the last _render_frame call
    video_size,       \* LyricClip.video_size, NoSize before the clip is built
    timeline_positions,   \* LyricClip._timeline_positions
    blends,           \* the blends onto the frame buffer since it was erased
    lastcall,         \* the last LyricTimeline / LyricClip call and its outcome
    blend_call,       \* arguments and outcome of an _opencv_alpha_blend call
    \* ---- FontCache (src/font_cache.py) ----
    font_cache,       \* FontCache._cache
    font_lock,        \* FontCache._lock: the thread that holds it, or NoThread
    font_loads,       \* how often _load_font was called for each cache key
    threads           \* each thread's position in get_font and its locals

vars == <<lyrics_data, query, active_lyrics,
          processed_lyrics, max_lines, processed_call,
          elements, spacing, start_y, layout_result, lastop, conflicts,
          timelines, background, frame_buffer, render_t,
          video_size, timeline_positions, blends, lastcall, blend_call,
          font_cache, font_lock, font_loads, threads>>

timelineVars == <<lyrics_data, query, active_lyrics,
                  processed_lyrics, max_lines, processed_call>>
layoutVars   == <<elements, spacing, start_y, layout_result, lastop, conflicts>>
clipVars     == <<timelines, background, frame_buffer, render_t,
                  video_size, timeline_positions, blends, lastcall,
                  blend_call>>
fontVars     == <<font_cache, font_lock, font_loads, threads>>

----------------------------------------------------------------------------
(* Bounds of the model *)

MaxEntries == 3           \* longest lyric list given to the constructor

(* Values *)

\* Optional[int]: None, or Some(v) whose value is Val(x)
None == <<>>
Some(v) == <<v>>
Val(x) == x[1]
Inf == 0 - 1              \* float('inf'); every finite duration is >= 0
DefaultDuration == 30     \* 3.0 s

\* the only element of a one-element set: a value computed once
Once(set) == CHOOSE v \in set : TRUE

Max(a, b) == IF a >= b THEN a ELSE b
Min(a, b) == IF a <= b THEN a ELSE b

\* sorted(seq, key=...): Python's sort is stable; keys[i] is the key of seq[i]
SortedBy(seq, keys) ==
    LET \* positions of seq in sorted order
        Insert(s, i) ==
            LET k == Cardinality({j \in 1..Len(s) : keys[s[j]] <= keys[i]})
            IN  SubSeq(s, 1, k) \o <<i>> \o SubSeq(s, k + 1, Len(s))
        RECURSIVE Go(_)
        Go(n) == IF n = 0 THEN <<>> ELSE Insert(Go(n - 1), n)
        order == Go(Len(seq))
    IN  [i \in 1..Len(seq) |-> seq[order[i]]]

\* key=lambda x: x[0], key=lambda x: x['start_time']
StartTimeKeys(seq) == [i \in 1..Len(seq) |-> seq[i].start_time]


----------------------------------------------------------------------------
(* LyricTimeline *)

StartTimes == {0, 1, 25, 50}
AnimationDurations == {2, 3}
MaxDurations == {Inf, 40}

\* query times: around the first entries and around each later start time
QueryTimes == ((0 - 4)..5) \cup (21..27) \cup (46..51)

\* the text handed to the constructor with a timestamp: one line
TextOf(time) == <<time + 1>>

LyricInputs ==
    UNION {[1..n -> StartTimes] : n \in 0..MaxEntries}

\* LyricTimeline.__init__: self.lyrics_data = sorted(lyrics_data, key=x[0])
NewLyricsData(times) ==
    LET given == [i \in 1..Len(times) |->
                     [start_time |-> times[i], text |-> TextOf(times[i])]]
    IN  SortedBy(given, StartTimeKeys(given))

\* track inputs whose start times are one or more fade durations apart
SpacedStartTimes == {0, 3, 6, 12}
SpacedInputs ==
    UNION {[1..n -> SpacedStartTimes] : n \in 0..MaxEntries}
\* query times around the start times, and one long after the last
SpacedQueryTimes == ((0 - 4)..13) \cup {45}

\* mutant: the last entry lasts 3.0 s whatever the bound, as
\* LyricContentFactory.calculate_lyric_duration computes it
CalculateLyricDuration_factory(ld, lyric_index, max_duration) ==
    IF lyric_index >= Len(ld) THEN DefaultDuration
    ELSE LET current_time == ld[lyric_index + 1].start_time
         IN  IF lyric_index + 1 < Len(ld)
             THEN ld[lyric_index + 2].start_time - current_time
             ELSE DefaultDuration

\* _calculate_lyric_duration(lyric_index, max_duration); lyric_index from 0
CalculateLyricDuration(ld, lyric_index, max_duration) ==
    IF lyric_index >= Len(ld) THEN DefaultDuration
    ELSE LET current_time == ld[lyric_index + 1].start_time
         IN  IF lyric_index + 1 < Len(ld)
             THEN ld[lyric_index + 2].start_time - current_time
             ELSE IF max_duration # Inf
                  THEN Max(DefaultDuration, max_duration - current_time)
                  ELSE Inf

\* t < start_time + duration, for a duration that may be float('inf')
BeforeEnd(t, start_time, duration) ==
    duration = Inf \/ t < start_time + duration

\* mutant: the fade-in starts at start_time, as
\* LyricContent.calculate_animation_progress computes it
CalculateAnimationProgress_legacy(t, start_time, duration, animation_duration) ==
    LET relative_time == Max(0, t - start_time)
    IN  IF t < start_time \/ ~BeforeEnd(t, start_time, duration) THEN 0
        ELSE IF relative_time <= animation_duration THEN relative_time
        ELSE IF duration # Inf /\ relative_time >= duration - animation_duration
             THEN Max(0, animation_duration
                             - (relative_time - (duration - animation_duration)))
        ELSE animation_duration

\* mutant: the fade-out adds the fade_out_progress instead of subtracting it
CalculateAnimationProgress_slip(t, start_time, duration, animation_duration) ==
    LET fade_in_start == start_time - animation_duration
        relative_time == t - start_time
    IN  IF t < fade_in_start \/ ~BeforeEnd(t, start_time, duration) THEN 0
        ELSE IF t < start_time
             THEN Max(0, Min(animation_duration, t - fade_in_start))
        ELSE IF duration = Inf \/ relative_time <= duration - animation_duration
             THEN animation_duration
        ELSE Max(0, animation_duration
                        + (relative_time - (duration - animation_duration)))

\* mutant: the fade-in is measured from start_time, not from fade_in_start
CalculateAnimationProgress_late(t, start_time, duration, animation_duration) ==
    LET fade_in_start == start_time - animation_duration
        relative_time == t - start_time
    IN  IF t < fade_in_start \/ ~BeforeEnd(t, start_time, duration) THEN 0
        ELSE IF t < start_time
             THEN t - start_time
        ELSE IF duration = Inf \/ relative_time <= duration - animation_duration
             THEN animation_duration
        ELSE Max(0, animation_duration
                        - (relative_time - (duration - animation_duration)))

\* _calculate_animation_progress, in units of 1 / animation_duration
CalculateAnimationProgress(t, start_time, duration, animation_duration) ==
    LET fade_in_start == start_time - animation_duration
        relative_time == t - start_time
    IN  IF t < fade_in_start \/ ~BeforeEnd(t, start_time, duration) THEN 0
        ELSE IF t < start_time
             THEN Max(0, Min(animation_duration, t - fade_in_start))
        ELSE IF duration = Inf \/ relative_time <= duration - animation_duration
             THEN animation_duration
        ELSE \* relative_time >= fade_out_start holds here
             Max(0, animation_duration
                        - (relative_time - (duration - animation_duration)))

\* mutant: the window is closed on the right
GetContentAtTime_closed(ld, t, max_duration, animation_duration) ==
    LET Entry(i) ==
            LET duration == CalculateLyricDuration(ld, i, max_duration)
            IN  [text |-> ld[i + 1].text,
                 start_time |-> ld[i + 1].start_time,
                 duration |-> duration,
                 animation_progress |->
                     CalculateAnimationProgress(t, ld[i + 1].start_time,
                                                duration, animation_duration),
                 index |-> i]
        InRange(i) ==
            LET e == Entry(i)
            IN  /\ e.start_time - animation_duration <= t
                /\ (e.duration = Inf \/ t <= e.start_time + e.duration)
                /\ e.animation_progress >= 0
        RECURSIVE Loop(_)
        Loop(n) == IF n = 0 THEN <<>>
                   ELSE IF InRange(n - 1) THEN Append(Loop(n - 1), Entry(n - 1))
                   ELSE Loop(n - 1)
    IN  LET found == Loop(Len(ld)) IN SortedBy(found, StartTimeKeys(found))

\* get_content_at_time(t, max_duration, animation_duration)
GetContentAtTime(ld, t, max_duration, animation_duration) ==
    LET Entry(i) ==
            LET duration == CalculateLyricDuration(ld, i, max_duration)
            IN  [text |-> ld[i + 1].text,
                 start_time |-> ld[i + 1].start_time,
                 duration |-> duration,
                 animation_progress |->
                     CalculateAnimationProgress(t, ld[i + 1].start_time,
                                                duration, animation_duration),
                 index |-> i]
        InRange(i) ==
            LET e == Entry(i)
            IN  /\ e.start_time - animation_duration <= t
                /\ BeforeEnd(t, e.start_time, e.duration)
                /\ e.animation_progress >= 0
        RECURSIVE Loop(_)
        Loop(n) == IF n = 0 THEN <<>>
                   ELSE IF InRange(n - 1) THEN Append(Loop(n - 1), Entry(n - 1))
                   ELSE Loop(n - 1)
    IN  LET found == Loop(Len(ld)) IN SortedBy(found, StartTimeKeys(found))

NoQuery == [t |-> 0, max_duration |-> Inf, animation_duration |-> 0,
            called |-> FALSE]

\* a caller asks the timeline for its content at time t
QueryContent(t, max_duration, animation_duration) ==
    /\ query' = [t |-> t, max_duration |-> max_duration,
                 animation_duration |-> animation_duration, called |-> TRUE]
    /\ active_lyrics' =
           GetContentAtTime(lyrics_data, t, max_duration, animation_duration)
    /\ UNCHANGED <<lyrics_data, processed_lyrics, max_lines, processed_call>>
    /\ UNCHANGED <<layoutVars, clipVars, fontVars>>

----------------------------------------------------------------------------
(* LayoutEngine, VerticalStackStrategy, LyricRect *)

MaxElements == 3          \* most elements registered with the engine

ElementIds == {"track1", "track2", "track3"}
Priorities == {1, 10}
RequiredHeights == {60, 100, 400}
Spacings == {0, 30}
StartYs == {None, Some(100)}
Canvases == {[video_width |-> 1280, video_height |-> 720],
             [video_width |-> 720, video_height |-> 1280]}

\* LyricRect(x, y, width, height)
LyricRect(x, y, width, height) ==
    [x |-> x, y |-> y, width |-> width, height |-> height]

\* a LayoutElement: its id, its priority and what calculate_required_rect
\* returns for it
LayoutElements ==
    [element_id : ElementIds, priority : Priorities, is_flexible : {TRUE},
     required_rect : {LyricRect(0, 0, 1280, h) : h \in RequiredHeights}]

\* elements that may be fixed in place, each asking for a rectangle at a
\* position of its own
FlexibleElements ==
    [element_id : ElementIds, priority : {10}, is_flexible : BOOLEAN,
     required_rect : {LyricRect(0, 40, 1280, 60), LyricRect(0, 500, 1280, 100)}]

\* LyricRect.overlaps_with
OverlapsWith(self, other) ==
    ~ (\/ self.x + self.width < other.x
       \/ other.x + other.width < self.x
       \/ self.y + self.height < other.y
       \/ other.y + other.height < self.y)

\* key=lambda e: e.priority
PriorityKeys(seq) == [i \in 1..Len(seq) |-> seq[i].priority]

EmptyDict == [k \in {} |-> 0]

\* dict assignment d[k] = v
DictSet(d, k, v) ==
    [j \in DOMAIN d \cup {k} |-> IF j = k THEN v ELSE d[j]]

RECURSIVE SumHeights(_, _)
SumHeights(d, keys) ==
    IF keys = {} THEN 0
    ELSE LET k == CHOOSE j \in keys : TRUE
         IN  d[k].height + SumHeights(d, keys \ {k})

\* mutant: the elements are stacked in registration order
ArrangeElements_unsorted(elems, sp, sy, video_width, video_height) ==
    IF Len(elems) = 0 THEN EmptyDict
    ELSE
    LET sorted_elements == elems
        n == Len(sorted_elements)
        RECURSIVE Rects(_)
        Rects(k) == IF k = 0 THEN EmptyDict
                    ELSE DictSet(Rects(k - 1), sorted_elements[k].element_id,
                                 sorted_elements[k].required_rect)
        element_rects == Rects(n)
        total_height == SumHeights(element_rects, DOMAIN element_rects)
                            + sp * (Len(elems) - 1)
        first_y == IF sy # None THEN Val(sy)
                   ELSE (video_height - total_height) \div 2
        RECURSIVE Place(_)
        \* the state of the placing loop after k elements
        Place(k) ==
            IF k = 0 THEN [current_y |-> first_y, result_positions |-> EmptyDict]
            ELSE LET before == Place(k - 1)
                     rect == element_rects[sorted_elements[k].element_id]
                 IN  [current_y |-> before.current_y + rect.height + sp,
                      result_positions |->
                          DictSet(before.result_positions,
                                  sorted_elements[k].element_id,
                                  LyricRect(rect.x, before.current_y,
                                            rect.width, rect.height))]
    IN  Place(n).result_positions

\* VerticalStackStrategy.arrange_elements: the element_positions of the result
ArrangeElements(elems, sp, sy, video_width, video_height) ==
    IF Len(elems) = 0 THEN EmptyDict
    ELSE
    LET sorted_elements == SortedBy(elems, PriorityKeys(elems))
        n == Len(sorted_elements)
        RECURSIVE Rects(_)
        Rects(k) == IF k = 0 THEN EmptyDict
                    ELSE DictSet(Rects(k - 1), sorted_elements[k].element_id,
                                 sorted_elements[k].required_rect)
        element_rects == Rects(n)
        total_height == SumHeights(element_rects, DOMAIN element_rects)
                            + sp * (Len(elems) - 1)
        first_y == IF sy # None THEN Val(sy)
                   ELSE (video_height - total_height) \div 2
        RECURSIVE Place(_)
        \* the state of the placing loop after k elements
        Place(k) ==
            IF k = 0 THEN [current_y |-> first_y, result_positions |-> EmptyDict]
            ELSE LET before == Place(k - 1)
                     rect == element_rects[sorted_elements[k].element_id]
                 IN  [current_y |-> before.current_y + rect.height + sp,
                      result_positions |->
                          DictSet(before.result_positions,
                                  sorted_elements[k].element_id,
                                  LyricRect(rect.x, before.current_y,
                                            rect.width, rect.height))]
    IN  Place(n).result_positions

NoLayout == [called |-> FALSE, element_positions |-> EmptyDict,
             canvas |-> [video_width |-> 0, video_height |-> 0]]

\* mutant: an element whose id is registered already is appended all the same
AddElement_lenient(e) ==
    /\ Len(elements) < MaxElements
    /\ elements' = Append(elements, e)
    /\ lastop' = [op |-> "add_element", repeat |-> 0,
                  element_id |-> e.element_id]
    /\ layout_result' = NoLayout
    /\ conflicts' = <<>>
    /\ UNCHANGED <<spacing, start_y>>
    /\ UNCHANGED <<timelineVars, clipVars, fontVars>>

\* LayoutEngine.add_element
AddElement(e) ==
    /\ Len(elements) < MaxElements
    /\ IF e.element_id \in {elements[i].element_id : i \in 1..Len(elements)}
       THEN /\ lastop' = [op |-> "add_element_raised", repeat |-> 0,
                        element_id |-> e.element_id]
            /\ UNCHANGED elements
       ELSE /\ elements' = Append(elements, e)
            /\ lastop' = [op |-> "add_element", repeat |-> 0,
                        element_id |-> e.element_id]
    /\ layout_result' = NoLayout
    /\ conflicts' = <<>>
    /\ UNCHANGED <<spacing, start_y>>
    /\ UNCHANGED <<timelineVars, clipVars, fontVars>>

\* LayoutEngine.clear_elements
ClearElements ==
    /\ elements' = <<>>
    /\ lastop' = [op |-> "clear_elements", repeat |-> 0, element_id |-> ""]
    /\ layout_result' = NoLayout
    /\ conflicts' = <<>>
    /\ UNCHANGED <<spacing, start_y>>
    /\ UNCHANGED <<timelineVars, clipVars, fontVars>>

\* the elements registered as timelines, and the arguments of
\* set_layout_properties: None leaves a property as it is
PropertyElements ==
    [element_id : ElementIds, priority : {10}, is_flexible : {TRUE},
     required_rect : {LyricRect(0, 0, 1280, 60)}]
PropertyPriorities == {None, Some(1)}
PropertyFlexibles == {None, Some(FALSE)}
PropertyIds == {None} \cup {Some(id) : id \in ElementIds}

\* LyricTimeline.set_layout_properties on the timeline registered as the
\* i-th element: the engine's list holds the timeline itself
SetLayoutProperties(i, priority, is_flexible, element_id) ==
    /\ i \in 1..Len(elements)
    /\ elements' =
           [elements EXCEPT
               ![i].priority = IF priority # None THEN Val(priority) ELSE @,
               ![i].is_flexible =
                   IF is_flexible # None THEN Val(is_flexible) ELSE @,
               ![i].element_id =
                   IF element_id # None THEN Val(element_id) ELSE @]
    /\ lastop' = [op |-> "set_layout_properties", repeat |-> 0,
                  element_id |-> IF element_id # None THEN Val(element_id)
                                 ELSE ""]
    /\ layout_result' = NoLayout
    /\ conflicts' = <<>>
    /\ UNCHANGED <<spacing, start_y>>
    /\ UNCHANGED <<timelineVars, clipVars, fontVars>>

MaxRepeat == 2            \* consecutive calculate_layout calls that are counted

\* mutant: the strategy sorts the engine's own list in place
CalculateLayout_inplace(canvas) ==
    /\ layout_result' =
           [called |-> TRUE,
            element_positions |->
                ArrangeElements(elements, spacing, start_y,
                                canvas.video_width, canvas.video_height),
            canvas |-> canvas]
    /\ lastop' = [op |-> "calculate_layout",
                  repeat |-> IF lastop.op = "calculate_layout"
                             THEN Min(lastop.repeat + 1, MaxRepeat) ELSE 0,
                  element_id |-> ""]
    /\ elements' = SortedBy(elements, PriorityKeys(elements))
    /\ conflicts' = <<>>
    /\ UNCHANGED <<spacing, start_y>>
    /\ UNCHANGED <<timelineVars, clipVars, fontVars>>

\* LayoutEngine.calculate_layout
CalculateLayout(canvas) ==
    /\ layout_result' =
           [called |-> TRUE,
            element_positions |->
                ArrangeElements(elements, spacing, start_y,
                                canvas.video_width, canvas.video_height),
            canvas |-> canvas]
    /\ lastop' = [op |-> "calculate_layout",
                  repeat |-> IF lastop.op = "calculate_layout"
                             THEN Min(lastop.repeat + 1, MaxRepeat) ELSE 0,
                  element_id |-> ""]
    /\ conflicts' = <<>>
    /\ UNCHANGED <<elements, spacing, start_y>>
    /\ UNCHANGED <<timelineVars, clipVars, fontVars>>

\* the required rectangles of the elements checked for conflicts: two side by
\* side, one right below them and touching both, one far below
ConflictRects == {LyricRect(0, 0, 600, 60), LyricRect(700, 0, 580, 60),
                  LyricRect(0, 60, 1280, 60), LyricRect(0, 200, 1280, 100)}

ConflictElements ==
    [element_id : ElementIds, priority : {10}, is_flexible : {TRUE},
     required_rect : ConflictRects]

\* mutant: every ordered pair of different elements is compared
DetectConflictsOf_ordered(elems, video_width, video_height) ==
    IF Len(elems) < 2 THEN <<>>
    ELSE
    LET RECURSIVE Rects(_)
        Rects(k) == IF k = 0 THEN EmptyDict
                    ELSE DictSet(Rects(k - 1), elems[k].element_id,
                                 elems[k].required_rect)
        element_rects == Rects(Len(elems))
        RECURSIVE Keys(_)
        Keys(k) == IF k = 0 THEN <<>>
                   ELSE IF \E m \in 1..(k - 1) :
                               elems[m].element_id = elems[k].element_id
                        THEN Keys(k - 1)
                        ELSE Append(Keys(k - 1), elems[k].element_id)
        element_ids == Keys(Len(elems))
        n == Len(element_ids)
        RECURSIVE Inner(_, _)
        Inner(i, j) ==
            IF j < 1 THEN <<>>
            ELSE IF /\ j # i
                    /\ OverlapsWith(element_rects[element_ids[i]],
                                    element_rects[element_ids[j]])
                 THEN Append(Inner(i, j - 1),
                             [id1 |-> element_ids[i], id2 |-> element_ids[j]])
                 ELSE Inner(i, j - 1)
        RECURSIVE Outer(_)
        Outer(i) == IF i = 0 THEN <<>> ELSE Outer(i - 1) \o Inner(i, n)
    IN  Outer(n)

\* LayoutEngine.detect_conflicts: the list of notes, a note being the two ids
\* it names
DetectConflictsOf(elems, video_width, video_height) ==
    IF Len(elems) < 2 THEN <<>>
    ELSE
    LET RECURSIVE Rects(_)
        Rects(k) == IF k = 0 THEN EmptyDict
                    ELSE DictSet(Rects(k - 1), elems[k].element_id,
                                 elems[k].required_rect)
        element_rects == Rects(Len(elems))
        \* list(element_rects.keys()): the ids in the order of first insertion
        RECURSIVE Keys(_)
        Keys(k) == IF k = 0 THEN <<>>
                   ELSE IF \E m \in 1..(k - 1) :
                               elems[m].element_id = elems[k].element_id
                        THEN Keys(k - 1)
                        ELSE Append(Keys(k - 1), elems[k].element_id)
        element_ids == Keys(Len(elems))
        n == Len(element_ids)
        \* the notes of the pairs (i, i + 1) .. (i, j)
        RECURSIVE Inner(_, _)
        Inner(i, j) ==
            IF j <= i THEN <<>>
            ELSE IF OverlapsWith(element_rects[element_ids[i]],
                                 element_rects[element_ids[j]])
                 THEN Append(Inner(i, j - 1),
                             [id1 |-> element_ids[i], id2 |-> element_ids[j]])
                 ELSE Inner(i, j - 1)
        RECURSIVE Outer(_)
        Outer(i) == IF i = 0 THEN <<>> ELSE Outer(i - 1) \o Inner(i, n)
    IN  Outer(n)

\* LayoutEngine.detect_conflicts
DetectConflicts(canvas) ==
    /\ conflicts' = DetectConflictsOf(elements, canvas.video_width,
                                      canvas.video_height)
    /\ lastop' = [op |-> "detect_conflicts", repeat |-> 0, element_id |-> ""]
    /\ layout_result' = NoLayout
    /\ UNCHANGED <<elements, spacing, start_y>>
    /\ UNCHANGED <<timelineVars, clipVars, fontVars>>

----------------------------------------------------------------------------
(* LyricClip and LyricTimeline.render *)

ClipWidth == 3            \* frame width in pixels
ClipHeight == 48          \* frame height in pixels
ClipEarly == 4            \* the earliest frame time requested is -ClipEarly
ClipTMax == 3             \* latest frame time requested

ANIMATION_VERTICAL_OFFSET == 30
DefaultAnimationDuration == 3       \* animation_duration = 0.3
DefaultCurrentYOffset == 0 - 50     \* current_y_offset = -50

ClipStartTimes == {0, 2}
\* narrow, wider than the frame with a blank second line, blank
ClipTexts == {<<1>>, <<5, 0>>, <<0>>}
ClipFontSizes == {5}
DisplayModes == {"SIMPLE_FADE", "ENHANCED_PREVIEW"}

Pixels == (0..(ClipHeight - 1)) \X (0..(ClipWidth - 1))
Uniform(v) == Once({[px \in Pixels |-> w] : w \in {v}})

\* what np.ndarray(shape, dtype=np.uint8) may hold: it is not initialised
UninitialisedBuffers == {Uniform(0), Uniform(77)}

NoBackground == [present |-> FALSE, pixels |-> <<>>]
Backgrounds == {NoBackground, [present |-> TRUE, pixels |-> Uniform(100)]}

NoImage == [height |-> 0, width |-> 0]      \* self._text_cache[key] = None

\* hash(text): a polynomial hash of the lines
RECURSIVE TextHash(_)
TextHash(text) ==
    IF Len(text) = 0 THEN 7
    ELSE (TextHash(SubSeq(text, 1, Len(text) - 1)) * 31
              + text[Len(text)] + 1) % 65536

\* _get_cache_key
GetCacheKey(tl, text) == <<TextHash(text), tl.font_size>>

\* int(font_size * 1.2)
LineHeight(font_size) == (font_size * 12) \div 10

RECURSIVE MaxLineWidth(_)
MaxLineWidth(lines) ==
    IF Len(lines) = 0 THEN 0
    ELSE Max(MaxLineWidth(Tail(lines)), Head(lines))

\* _create_text_image_opencv: the cache after the call
CreateTextImage(cache, tl, text) ==
    LET line_height == LineHeight(tl.font_size)
        max_width == MaxLineWidth(text)
        total_height == Len(text) * line_height
    IN  DictSet(cache, GetCacheKey(tl, text),
                IF max_width <= 0 \/ total_height <= 0 THEN NoImage
                ELSE [height |-> total_height, width |-> max_width])

\* _initialize_text_cache
InitializeTextCache(tl) ==
    LET RECURSIVE Fill(_)
        Fill(n) ==
            IF n = 0 THEN tl.text_cache
            ELSE LET cache == Fill(n - 1)
                     text == tl.lyrics_data[n].text
                 IN  IF GetCacheKey(tl, text) \in DOMAIN cache THEN cache
                     ELSE CreateTextImage(cache, tl, text)
    IN  Fill(Len(tl.lyrics_data))

\* context.video_size, and the (height, width) of a frame buffer's shape
VideoSize(width, height) == [width |-> width, height |-> height]
NoSize == VideoSize(0, 0)
ClipSize == VideoSize(ClipWidth, ClipHeight)

\* a frame buffer whose pixels are not kept: only the blends onto it are
NoPixels == <<>>

\* the display strategies: SimpleFadeStrategy(y_position) and
\* EnhancedPreviewStrategy(current_y_offset, preview_y_offset)
SimpleFadeStrategy(y_position) ==
    [type |-> "SimpleFadeStrategy", y_position |-> y_position,
     current_y_offset |-> 0, preview_y_offset |-> 0]
EnhancedPreviewStrategy(current_y_offset, preview_y_offset) ==
    [type |-> "EnhancedPreviewStrategy", y_position |-> None,
     current_y_offset |-> current_y_offset,
     preview_y_offset |-> preview_y_offset]
DefaultPreviewYOffset == 80         \* preview_y_offset = 80

\* _get_render_position; progress in units of 1 / DefaultAnimationDuration
GetRenderPosition(tl, text_img, animation_progress, size) ==
    LET vertical_offset ==
            IF animation_progress < DefaultAnimationDuration
            THEN (ANIMATION_VERTICAL_OFFSET
                      * (DefaultAnimationDuration - animation_progress))
                     \div DefaultAnimationDuration
            ELSE 0
        x_pos == (size.width - text_img.width) \div 2
    IN  IF tl.display_mode = "SIMPLE_FADE"
        THEN LET y_pos ==
                     IF /\ tl.strategy.type = "SimpleFadeStrategy"
                        /\ tl.strategy.y_position # None
                     THEN Val(tl.strategy.y_position)
                     ELSE size.height \div 2
             IN  [x |-> x_pos,
                  y |-> y_pos - text_img.height \div 2 + vertical_offset]
        ELSE IF tl.display_mode = "ENHANCED_PREVIEW"
        THEN LET current_y_offset ==
                     IF tl.strategy.type = "EnhancedPreviewStrategy"
                     THEN tl.strategy.current_y_offset
                     ELSE DefaultCurrentYOffset
                 center_y == size.height \div 2 + current_y_offset
             IN  [x |-> x_pos,
                  y |-> center_y - text_img.height \div 2 + vertical_offset]
        ELSE [x |-> x_pos,
              y |-> (size.height - text_img.height) \div 2 + vertical_offset]

\* the indices a[start:stop] selects of an axis of length n: a negative bound
\* counts from the end, a bound past the end is cut off
SliceIndices(start, stop, n) ==
    LET from == IF start < 0 THEN Max(start + n, 0) ELSE Min(start, n)
        to == IF stop < 0 THEN Max(stop + n, 0) ELSE Min(stop, n)
    IN  from..(to - 1)

\* mutant: the requested position is used as it is
BlendBox_unclamped(text_img, x0, y0, shape) ==
    LET x == x0
        y == y0
    IN  [x |-> x, y |-> y,
         end_x |-> Min(x + text_img.width, shape.width),
         end_y |-> Min(y + text_img.height, shape.height)]

\* _opencv_alpha_blend, "stay inside the borders": x, y, end_x and end_y
BlendBox(text_img, x0, y0, shape) ==
    LET x == Max(0, Min(x0, shape.width - text_img.width))
        y == Max(0, Min(y0, shape.height - text_img.height))
    IN  [x |-> x, y |-> y,
         end_x |-> Min(x + text_img.width, shape.width),
         end_y |-> Min(y + text_img.height, shape.height)]

\* the rows and columns of bg_region = background[y:end_y, x:end_x] and the
\* number of rows and columns of fg_region = foreground[:h, :w]
BlendRegions(text_img, box, shape) ==
    [bg_rows |-> SliceIndices(box.y, box.end_y, shape.height),
     bg_cols |-> SliceIndices(box.x, box.end_x, shape.width),
     fg_rows |-> Cardinality(SliceIndices(0, box.end_y - box.y,
                                          text_img.height)),
     fg_cols |-> Cardinality(SliceIndices(0, box.end_x - box.x,
                                          text_img.width))]

\* _opencv_alpha_blend raises when fg_region cannot be broadcast to bg_region:
\* along each axis the lengths must be equal, or fg_region's must be 1
AlphaBlendRaises(text_img, x0, y0, shape) ==
    LET box == BlendBox(text_img, x0, y0, shape)
        r == BlendRegions(text_img, box, shape)
    IN  /\ box.end_y - box.y > 0
        /\ box.end_x - box.x > 0
        /\ \/ r.fg_rows \notin {1, Cardinality(r.bg_rows)}
           \/ r.fg_cols \notin {1, Cardinality(r.bg_cols)}

\* _opencv_alpha_blend, the blend itself: dst = dst * (1 - alpha) + src * alpha
\* over bg_region, alpha = progress, for a bitmap whose pixels are opaque white
BlendRegion(frame, rows, cols, animation_progress) ==
    [px \in Pixels |->
        IF px[1] \in rows /\ px[2] \in cols
        THEN (frame[px] * (DefaultAnimationDuration - animation_progress)
                  + 255 * animation_progress)
                 \div DefaultAnimationDuration
        ELSE frame[px]]

\* _opencv_alpha_blend on a frame buffer of the given shape
OpencvAlphaBlend(frame, text_img, x0, y0, animation_progress, shape) ==
    LET box == BlendBox(text_img, x0, y0, shape)
    IN  IF box.end_y - box.y <= 0 \/ box.end_x - box.x <= 0 THEN frame
        ELSE IF frame = NoPixels THEN NoPixels
        ELSE Once({BlendRegion(fr, r.bg_rows, r.bg_cols, p) :
                      fr \in {frame},
                      r \in {BlendRegions(text_img, box, shape)},
                      p \in {animation_progress}})

\* _render_cached_text_opencv
RenderCachedText(frame, tl, cache, cache_key, animation_progress, size) ==
    IF cache_key \notin DOMAIN cache \/ cache[cache_key] = NoImage THEN frame
    ELSE LET text_img == cache[cache_key]
             pos == GetRenderPosition(tl, text_img, animation_progress, size)
         IN  OpencvAlphaBlend(frame, text_img, pos.x, pos.y,
                              animation_progress, size)

\* the blend _render_cached_text_opencv makes for a lyric, as a list of one
\* entry, or of none when nothing is blended
BlendOf(tl, cache, lyric, size) ==
    LET cache_key == GetCacheKey(tl, lyric.text) IN
    IF cache_key \notin DOMAIN cache \/ cache[cache_key] = NoImage THEN <<>>
    ELSE LET text_img == cache[cache_key]
             pos == GetRenderPosition(tl, text_img, lyric.animation_progress,
                                      size)
             box == BlendBox(text_img, pos.x, pos.y, size)
         IN  IF box.end_y - box.y <= 0 \/ box.end_x - box.x <= 0 THEN <<>>
             ELSE <<[element_id |-> tl.element_id,
                     index |-> lyric.index,
                     start_time |-> lyric.start_time,
                     animation_progress |-> lyric.animation_progress,
                     requested |-> pos,
                     box |-> box]>>

\* mutant: a lyric is drawn whatever its animation progress
RenderActive_noskip(tl, n, active, cache0, frame, size) ==
    LET RECURSIVE Draw(_)
        Draw(k) ==
            IF k = 0 THEN [cache |-> cache0, frame |-> frame, blends |-> <<>>]
            ELSE Once({LET lyric == active[k]
                           cache_key == GetCacheKey(tl, lyric.text)
                           cache == IF cache_key \in DOMAIN before.cache
                                    THEN before.cache
                                    ELSE CreateTextImage(before.cache, tl,
                                                         lyric.text)
                       IN  [cache |-> cache,
                            frame |-> RenderCachedText(before.frame, tl,
                                          cache, cache_key,
                                          lyric.animation_progress, size),
                            blends |-> before.blends
                                \o BlendOf(tl, cache, lyric, size)] :
                       before \in {Draw(k - 1)}})
    IN  Draw(n)

\* mutant: the active lyrics are drawn from the last to the first
RenderActive_backwards(tl, n, active, cache0, frame, size) ==
    LET RECURSIVE Draw(_)
        Draw(k) ==
            IF k = 0 THEN [cache |-> cache0, frame |-> frame, blends |-> <<>>]
            ELSE Once({LET lyric == active[n + 1 - k]
                           cache_key == GetCacheKey(tl, lyric.text)
                           cache == IF cache_key \in DOMAIN before.cache
                                    THEN before.cache
                                    ELSE CreateTextImage(before.cache, tl,
                                                         lyric.text)
                       IN  IF lyric.animation_progress * 1000
                                  < DefaultAnimationDuration
                           THEN before
                           ELSE [cache |-> cache,
                                 frame |-> RenderCachedText(before.frame, tl,
                                               cache, cache_key,
                                               lyric.animation_progress, size),
                                 blends |-> before.blends
                                     \o BlendOf(tl, cache, lyric, size)] :
                       before \in {Draw(k - 1)}})
    IN  Draw(n)

\* LyricTimeline.render, the loop over the active lyrics: the cache, the
\* frame buffer and the blends made after the first n of them
RenderActive(tl, n, active, cache0, frame, size) ==
    LET RECURSIVE Draw(_)
        Draw(k) ==
            IF k = 0 THEN [cache |-> cache0, frame |-> frame, blends |-> <<>>]
            ELSE Once({LET lyric == active[k]
                           cache_key == GetCacheKey(tl, lyric.text)
                           cache == IF cache_key \in DOMAIN before.cache
                                    THEN before.cache
                                    ELSE CreateTextImage(before.cache, tl,
                                                         lyric.text)
                       IN  \* animation_progress < 0.001
                           IF lyric.animation_progress * 1000
                                  < DefaultAnimationDuration
                           THEN before
                           ELSE [cache |-> cache,
                                 frame |-> RenderCachedText(before.frame, tl,
                                               cache, cache_key,
                                               lyric.animation_progress, size),
                                 blends |-> before.blends
                                     \o BlendOf(tl, cache, lyric, size)] :
                       before \in {Draw(k - 1)}})
    IN  Draw(n)

\* LyricTimeline.render: the timeline, the frame buffer and the blends made
\* after the call
Render(tl, frame, t, size) ==
    Once({[timeline |-> [tl EXCEPT !.text_cache = drawn.cache,
                                   !.cache_initialized = TRUE],
           frame |-> drawn.frame,
           blends |-> drawn.blends] :
          drawn \in {RenderActive(tl, Len(active), active, cache0, fr, size) :
                        active \in {GetContentAtTime(tl.lyrics_data, t, Inf,
                                                     DefaultAnimationDuration)},
                        cache0 \in {IF tl.cache_initialized THEN tl.text_cache
                                    ELSE InitializeTextCache(tl)},
                        fr \in {frame}}})

\* mutant: the canvas is not erased
EraseCanvas_keep(frame, bg) == frame

\* _render_frame, "erase the canvas"
EraseCanvas(frame, bg) ==
    IF frame = NoPixels THEN NoPixels
    ELSE IF bg.present THEN bg.pixels ELSE Uniform(0)

\* _render_frame: the timelines, the frame buffer and the blends made after
\* the call
RenderFrameOf(tls, bg, frame, t, size) ==
    LET RECURSIVE Each(_)
        Each(n) ==
            IF n = 0
            THEN [timelines |-> <<>>,
                  frame |-> Once({EraseCanvas(fr, b) : fr \in {frame}, b \in {bg}}),
                  blends |-> <<>>]
            ELSE Once({[timelines |-> Append(before.timelines, r.timeline),
                        frame |-> r.frame,
                        blends |-> before.blends \o r.blends] :
                       <<before, r>> \in
                           {<<bf, Render(tls[n], bf.frame, t, size)>> :
                               bf \in {Each(n - 1)}}})
    IN  Each(Len(tls))

NoRender == [t |-> 0, called |-> FALSE, rewound |-> FALSE]
NoCall == [op |-> "none", raised |-> FALSE, display_mode |-> "none"]

\* LyricClip._render_frame(t)
RenderFrame(t) ==
    /\ video_size # NoSize
    /\ \E r \in {RenderFrameOf(timelines, background, frame_buffer, t,
                               video_size)} :
        /\ timelines' = r.timelines
        /\ frame_buffer' = r.frame
        /\ blends' = r.blends
    /\ render_t' = [t |-> t, called |-> TRUE,
                    rewound |-> render_t.called /\ t < render_t.t]
    /\ lastcall' = [op |-> "render_frame", raised |-> FALSE,
                    display_mode |-> "none"]
    /\ UNCHANGED <<background, video_size, timeline_positions, blend_call>>
    /\ UNCHANGED <<timelineVars, layoutVars, fontVars>>

\* mutant: the lines are not cleaned and every entry is kept
PreprocessLyrics_raw(ld) ==
    [i \in 1..Len(ld) |->
        [timestamp |-> ld[i].start_time, lines |-> ld[i].text]]

\* _preprocess_lyrics: the lines of each entry that are not blank; an entry
\* with no such line is dropped
PreprocessLyrics(ld) ==
    LET NotBlank(width) == width > 0
        HasLines(entry) == Len(entry.lines) > 0
    IN  SelectSeq([i \in 1..Len(ld) |->
                      [timestamp |-> ld[i].start_time,
                       lines |-> SelectSeq(ld[i].text, NotBlank)]],
                  HasLines)

\* _calculate_max_lines
RECURSIVE CalculateMaxLines(_)
CalculateMaxLines(processed) ==
    IF Len(processed) = 0 THEN 1
    ELSE Max(CalculateMaxLines(Tail(processed)), Len(Head(processed).lines))

SupportedModes == {"SIMPLE_FADE", "ENHANCED_PREVIEW"}

\* _setup_strategy, for a supported mode
SetupStrategy(display_mode) ==
    IF display_mode = "SIMPLE_FADE" THEN SimpleFadeStrategy(None)
    ELSE EnhancedPreviewStrategy(DefaultCurrentYOffset, DefaultPreviewYOffset)

\* a LyricTimeline as constructed from a list of (timestamp, text) pairs:
\* sorted by timestamp, nothing cached yet
NewTimeline(entries, font_size, display_mode, element_id, priority) ==
    [lyrics_data |-> SortedBy(entries, StartTimeKeys(entries)),
     font_size |-> font_size,
     display_mode |-> display_mode,
     strategy |-> SetupStrategy(display_mode),
     element_id |-> element_id,
     priority |-> priority,
     is_flexible |-> TRUE,
     max_lines |-> CalculateMaxLines(PreprocessLyrics(
                       SortedBy(entries, StartTimeKeys(entries)))),
     text_cache |-> EmptyDict,
     cache_initialized |-> FALSE]

\* SimpleFadeStrategy / EnhancedPreviewStrategy .calculate_required_rect
CalculateRequiredRect(tl, size) ==
    LET line_height == LineHeight(tl.font_size) IN
    IF tl.strategy.type = "SimpleFadeStrategy"
    THEN LET \* self.y_position or (video_height // 2)
             y_pos == IF tl.strategy.y_position = None
                         \/ Val(tl.strategy.y_position) = 0
                      THEN size.height \div 2
                      ELSE Val(tl.strategy.y_position)
             total_height == tl.max_lines * line_height
             total_height_with_animation ==
                 total_height + 2 * ANIMATION_VERTICAL_OFFSET
         IN  LyricRect(0, y_pos - total_height_with_animation \div 2,
                       size.width, total_height_with_animation)
    ELSE LET Abs(v) == IF v < 0 THEN 0 - v ELSE v
             single_lyric_height == tl.max_lines * line_height
             total_height == Abs(tl.strategy.current_y_offset)
                                 + Abs(tl.strategy.preview_y_offset)
                                 + single_lyric_height * 2
             total_height_with_animation ==
                 total_height + 2 * ANIMATION_VERTICAL_OFFSET
             center_y == size.height \div 2
         IN  LyricRect(0, center_y - total_height_with_animation \div 2,
                       size.width, total_height_with_animation)

\* the timelines as the layout engine sees them
TimelineElements(tls, size) ==
    [i \in 1..Len(tls) |->
        [element_id |-> tls[i].element_id,
         priority |-> tls[i].priority,
         is_flexible |-> tls[i].is_flexible,
         required_rect |-> CalculateRequiredRect(tls[i], size)]]

DefaultSpacing == 20                \* spacing = 20

\* LyricClip.__init__, self._timeline_positions: the layout of an engine with
\* a default VerticalStackStrategy in which the timelines were registered
TimelinePositions(tls, size) ==
    ArrangeElements(TimelineElements(tls, size), DefaultSpacing, None,
                    size.width, size.height)

ClipEntries == [start_time : ClipStartTimes, text : ClipTexts]
ClipElementIds == <<"track1", "track2", "track3">>
DefaultPriority == 10               \* priority = 10

ClipTimelines ==
    {NewTimeline(entries, fs, dm, ClipElementIds[1], DefaultPriority) :
        entries \in {<<e>> : e \in ClipEntries}
                        \cup {<<e, f>> : e \in ClipEntries, f \in ClipEntries},
        fs \in ClipFontSizes, dm \in DisplayModes}

\* the auxiliary timelines that may follow the main one
SecondTimelines ==
    {NewTimeline(<<[start_time |-> 0, text |-> <<1>>]>>, fs, "ENHANCED_PREVIEW",
                 ClipElementIds[2], DefaultPriority) :
        fs \in ClipFontSizes}

ClipTimelineLists ==
    {<<a>> : a \in ClipTimelines}
        \cup {<<a, b>> : a \in ClipTimelines, b \in SecondTimelines}

MaxTimelines == 2         \* most timelines constructed for one clip

\* LyricDisplayMode
LyricDisplayMode == {"SIMPLE_FADE", "ENHANCED_PREVIEW", "KARAOKE_STYLE"}

DrawFontSize == 80                  \* LyricStyle.font_size = 80
DrawSizes == {VideoSize(1280, 720)}
DrawEarly == 2            \* the earliest frame time requested is -DrawEarly
DrawTMax == 2             \* latest frame time requested
\* one line; one line followed 0.2 s later by two lines
DrawLyrics ==
    {<<[start_time |-> 0, text |-> <<200>>]>>,
     <<[start_time |-> 0, text |-> <<200>>],
       [start_time |-> 2, text |-> <<300, 250>>]>>}
DrawYPositions == {None, Some(100)}

\* LyricTimeline(lyrics_data, display_mode=...): _setup_strategy raises for a
\* mode without a strategy, and then there is no timeline
ConstructTimeline(entries, display_mode) ==
    /\ video_size = NoSize
    /\ Len(timelines) < MaxTimelines
    /\ IF display_mode \in SupportedModes
       THEN /\ timelines' =
                   Append(timelines,
                          NewTimeline(entries, DrawFontSize, display_mode,
                                      ClipElementIds[Len(timelines) + 1],
                                      DefaultPriority))
            /\ lastcall' = [op |-> "construct", raised |-> FALSE,
                            display_mode |-> display_mode]
       ELSE /\ UNCHANGED timelines
            /\ lastcall' = [op |-> "construct", raised |-> TRUE,
                            display_mode |-> display_mode]
    /\ UNCHANGED <<background, frame_buffer, render_t, video_size,
                   timeline_positions, blends, blend_call>>
    /\ UNCHANGED <<timelineVars, layoutVars, fontVars>>

\* timelines[i].set_display_mode(mode, y_position=...): the mode is stored
\* first, then the strategy is replaced or, for a mode without one,
\* ValueError is raised; the modes are switched before the clip is built
SetDisplayMode(i, mode, y_position) ==
    /\ video_size = NoSize
    /\ i \in 1..Len(timelines)
    /\ timelines' =
           [timelines EXCEPT
               ![i].display_mode = mode,
               ![i].strategy =
                   IF mode = "SIMPLE_FADE" THEN SimpleFadeStrategy(y_position)
                   ELSE IF mode = "ENHANCED_PREVIEW"
                   THEN EnhancedPreviewStrategy(DefaultCurrentYOffset,
                                                DefaultPreviewYOffset)
                   ELSE timelines[i].strategy]
    /\ lastcall' = [op |-> "set_display_mode",
                    raised |-> mode \notin {"SIMPLE_FADE", "ENHANCED_PREVIEW"},
                    display_mode |-> mode]
    /\ UNCHANGED <<background, frame_buffer, render_t, video_size,
                   timeline_positions, blends, blend_call>>
    /\ UNCHANGED <<timelineVars, layoutVars, fontVars>>

\* LyricClip(timelines, layout_engine, size, ...), with every timeline
\* registered in the layout engine
BuildClip(size) ==
    /\ video_size = NoSize
    /\ Len(timelines) > 0
    /\ video_size' = size
    /\ timeline_positions' = TimelinePositions(timelines, size)
    /\ frame_buffer' = NoPixels
    /\ lastcall' = [op |-> "clip", raised |-> FALSE, display_mode |-> "none"]
    /\ UNCHANGED <<timelines, background, render_t, blends, blend_call>>
    /\ UNCHANGED <<timelineVars, layoutVars, fontVars>>

\* the entries of a SIMPLE_FADE timeline: one line, two lines, two lines
\* around a blank one
RiseTexts == {<<200>>, <<300, 250>>, <<300, 0, 250>>}
RiseEntries == [start_time : {0, 5}, text : RiseTexts]
RiseLyrics ==
    {<<e>> : e \in RiseEntries} \cup {<<e, f>> : e \in RiseEntries, f \in RiseEntries}
RiseYPositions == {None, Some(0), Some(300)}
RiseTimes == (0 - 3)..6

\* LyricTimeline(lyrics_data) followed by
\* set_display_mode(SIMPLE_FADE, y_position=...)
SimpleFadeTimeline(entries, y_position) ==
    [NewTimeline(entries, DrawFontSize, "SIMPLE_FADE", ClipElementIds[1],
                 DefaultPriority)
        EXCEPT !.strategy = SimpleFadeStrategy(y_position)]

\* the bitmaps blended: narrower, as wide as and wider than the frame, lower,
\* as high as and higher than the frame
BlendImages ==
    [height : {6, ClipHeight, ClipHeight + 2},
     width : {1, ClipWidth, ClipWidth + 2}]
\* the positions asked for: far outside, across each edge and inside
BlendXs == (0 - ClipWidth - 3)..(ClipWidth + 1)
BlendYs == {0 - ClipHeight - 3, 0 - ClipHeight, 0 - 7, 0 - 6, 0 - 1, 0, 1, 21,
            ClipHeight - 7, ClipHeight - 6, ClipHeight - 5, ClipHeight - 1,
            ClipHeight, ClipHeight + 1, ClipHeight + 12}
BlendBackground == 100

NoBlend == [text_img |-> NoImage, x |-> 0, y |-> 0, alpha_factor |-> 0,
            done |-> FALSE, raised |-> FALSE]

\* _opencv_alpha_blend(background, foreground, x, y, alpha_factor) on the
\* frame buffer
AlphaBlend ==
    /\ blend_call # NoBlend
    /\ ~blend_call.done
    /\ LET raises == AlphaBlendRaises(blend_call.text_img, blend_call.x,
                                      blend_call.y, video_size)
       IN  /\ blend_call' = [blend_call EXCEPT !.done = TRUE,
                                               !.raised = raises]
           /\ frame_buffer' =
                  IF raises THEN frame_buffer
                  ELSE OpencvAlphaBlend(frame_buffer, blend_call.text_img,
                                        blend_call.x, blend_call.y,
                                        blend_call.alpha_factor, video_size)
    /\ UNCHANGED <<timelines, background, render_t, video_size,
                   timeline_positions, blends, lastcall>>
    /\ UNCHANGED <<timelineVars, layoutVars, fontVars>>

----------------------------------------------------------------------------
(* A LyricTimeline whose entries may be blank or have several lines *)

TrackStartTimes == {0, 10}
\* one line; three blank lines; two lines around a blank one
TrackTexts == {<<5>>, <<0, 0, 0>>, <<3, 0, 4>>}
TrackEntries == [start_time : TrackStartTimes, text : TrackTexts]
TrackInputs == UNION {[1..n -> TrackEntries] : n \in 0..MaxEntries}
TrackQueryTimes == ((0 - 4)..1) \cup (6..11)
\* the max_duration given to get_processed_lyrics
ProcessedMaxDurations == {Inf, 10}

NoProcessedCall == [called |-> FALSE, max_duration |-> Inf, result |-> <<>>]

\* get_processed_lyrics: the processed entries with t < max_duration
GetProcessedLyricsOf(processed, max_duration) ==
    LET Before(entry) == max_duration = Inf \/ entry.timestamp < max_duration
    IN  SelectSeq(processed, Before)

\* a caller asks the timeline for its processed lyrics
GetProcessedLyrics(max_duration) ==
    /\ processed_call' =
           [called |-> TRUE, max_duration |-> max_duration,
            result |-> GetProcessedLyricsOf(processed_lyrics, max_duration)]
    /\ UNCHANGED <<lyrics_data, query, active_lyrics, processed_lyrics,
                   max_lines>>
    /\ UNCHANGED <<layoutVars, clipVars, fontVars>>

----------------------------------------------------------------------------
(* FontCache.get_font called from several threads *)

NumThreads == 2           \* threads that call get_font
MaxCalls == 2             \* get_font calls of one thread

Threads == 1..NumThreads
NoThread == 0
FontSizes == {24, 48}

\* a font object: each _load_font call returns a new one
Font(cache_key, serial) == [cache_key |-> cache_key, serial |-> serial]
NoFont == [cache_key |-> <<>>, serial |-> 0]

\* a thread outside get_font
IdleThread == [pc |-> "idle", cache_key |-> <<>>, font |-> NoFont,
               returned |-> NoFont, calls |-> 0]

\* cache_key = (actual_font_path or 'default', size)
FontCacheKey(size) == <<"default", size>>

\* get_font is entered: the path is resolved and the cache key built
GetFont(th, size) ==
    /\ threads[th].pc = "idle"
    /\ threads[th].calls < MaxCalls
    /\ threads' = [threads EXCEPT ![th] =
                       [pc |-> "check", cache_key |-> FontCacheKey(size),
                        font |-> NoFont, returned |-> NoFont,
                        calls |-> threads[th].calls + 1]]
    /\ UNCHANGED <<font_cache, font_lock, font_loads>>
    /\ UNCHANGED <<timelineVars, layoutVars, clipVars>>

\* with cls._lock: (first block) the lock is taken
AcquireForCheck(th) ==
    /\ threads[th].pc = "check"
    /\ font_lock = NoThread
    /\ font_lock' = th
    /\ threads' = [threads EXCEPT ![th].pc = "checking"]
    /\ UNCHANGED <<font_cache, font_loads>>
    /\ UNCHANGED <<timelineVars, layoutVars, clipVars>>

\* if cache_key in cls._cache: return cls._cache[cache_key]; the lock is
\* released on the way out of the block
CheckCache(th) ==
    /\ threads[th].pc = "checking"
    /\ font_lock' = NoThread
    /\ IF threads[th].cache_key \in DOMAIN font_cache
       THEN threads' = [threads EXCEPT
                           ![th].pc = "idle",
                           ![th].returned = font_cache[threads[th].cache_key]]
       ELSE threads' = [threads EXCEPT ![th].pc = "load"]
    /\ UNCHANGED <<font_cache, font_loads>>
    /\ UNCHANGED <<timelineVars, layoutVars, clipVars>>

\* font = cls._load_font(actual_font_path, size), outside the lock
LoadFont(th) ==
    /\ threads[th].pc = "load"
    /\ LET cache_key == threads[th].cache_key
           serial == IF cache_key \in DOMAIN font_loads
                     THEN font_loads[cache_key] + 1 ELSE 1
       IN  /\ font_loads' = DictSet(font_loads, cache_key, serial)
           /\ threads' = [threads EXCEPT ![th].pc = "store",
                                         ![th].font = Font(cache_key, serial)]
    /\ UNCHANGED <<font_cache, font_lock>>
    /\ UNCHANGED <<timelineVars, layoutVars, clipVars>>

\* with cls._lock: (second block) the lock is taken
AcquireForStore(th) ==
    /\ threads[th].pc = "store"
    /\ font_lock = NoThread
    /\ font_lock' = th
    /\ threads' = [threads EXCEPT ![th].pc = "storing"]
    /\ UNCHANGED <<font_cache, font_loads>>
    /\ UNCHANGED <<timelineVars, layoutVars, clipVars>>

\* cls._cache[cache_key] = font; the lock is released; return font
StoreFont(th) ==
    /\ threads[th].pc = "storing"
    /\ font_cache' = DictSet(font_cache, threads[th].cache_key,
                             threads[th].font)
    /\ font_lock' = NoThread
    /\ threads' = [threads EXCEPT ![th].pc = "idle",
                                  ![th].returned = threads[th].font]
    /\ UNCHANGED font_loads
    /\ UNCHANGED <<timelineVars, layoutVars, clipVars>>

----------------------------------------------------------------------------
(* Specifications *)

IdleFontCache ==
    /\ font_cache = EmptyDict
    /\ font_lock = NoThread
    /\ font_loads = EmptyDict
    /\ threads = <<>>

IdleTimeline ==
    /\ lyrics_data = <<>>
    /\ query = NoQuery
    /\ active_lyrics = <<>>
    /\ processed_lyrics = <<>>
    /\ max_lines = 1
    /\ processed_call = NoProcessedCall

IdleLayout ==
    /\ elements = <<>>
    /\ spacing = 0
    /\ start_y = None
    /\ layout_result = NoLayout
    /\ lastop = [op |-> "init", repeat |-> 0, element_id |-> ""]
    /\ conflicts = <<>>

IdleClip ==
    /\ timelines = <<>>
    /\ background = NoBackground
    /\ frame_buffer = NoPixels
    /\ render_t = NoRender
    /\ video_size = NoSize
    /\ timeline_positions = EmptyDict
    /\ blends = <<>>
    /\ lastcall = NoCall
    /\ blend_call = NoBlend

\* a timeline is constructed and then queried at arbitrary times
InitTimeline ==
    /\ \E times \in LyricInputs : lyrics_data = NewLyricsData(times)
    /\ query = NoQuery
    /\ active_lyrics = <<>>
    /\ processed_lyrics = PreprocessLyrics(lyrics_data)
    /\ max_lines = CalculateMaxLines(processed_lyrics)
    /\ processed_call = NoProcessedCall
    /\ IdleLayout
    /\ IdleClip
    /\ IdleFontCache

NextTimeline ==
    \E t \in QueryTimes, max_duration \in MaxDurations,
       animation_duration \in AnimationDurations :
        QueryContent(t, max_duration, animation_duration)

SpecTimeline == InitTimeline /\ [][NextTimeline]_vars

\* a timeline whose entries are a few fade durations apart is queried
InitSpaced ==
    /\ \E times \in SpacedInputs : lyrics_data = NewLyricsData(times)
    /\ query = NoQuery
    /\ active_lyrics = <<>>
    /\ processed_lyrics = PreprocessLyrics(lyrics_data)
    /\ max_lines = CalculateMaxLines(processed_lyrics)
    /\ processed_call = NoProcessedCall
    /\ IdleLayout
    /\ IdleClip
    /\ IdleFontCache

NextSpaced ==
    \E t \in SpacedQueryTimes, max_duration \in MaxDurations,
       animation_duration \in AnimationDurations :
        QueryContent(t, max_duration, animation_duration)

SpecSpaced == InitSpaced /\ [][NextSpaced]_vars

\* a timeline is constructed from entries of which some are blank, then asked
\* for its content and for its processed lyrics
InitTrack ==
    /\ \E entries \in TrackInputs :
           lyrics_data = SortedBy(entries, StartTimeKeys(entries))
    /\ query = NoQuery
    /\ active_lyrics = <<>>
    /\ processed_lyrics = PreprocessLyrics(lyrics_data)
    /\ max_lines = CalculateMaxLines(processed_lyrics)
    /\ processed_call = NoProcessedCall
    /\ IdleLayout
    /\ IdleClip
    /\ IdleFontCache

NextTrack ==
    \/ \E t \in TrackQueryTimes, max_duration \in MaxDurations :
           QueryContent(t, max_duration, DefaultAnimationDuration)
    \/ \E max_duration \in ProcessedMaxDurations :
           GetProcessedLyrics(max_duration)

SpecTrack == InitTrack /\ [][NextTrack]_vars

\* an engine with a VerticalStackStrategy, elements come and go
InitLayout ==
    /\ elements = <<>>
    /\ spacing \in Spacings
    /\ start_y \in StartYs
    /\ layout_result = NoLayout
    /\ lastop = [op |-> "init", repeat |-> 0, element_id |-> ""]
    /\ conflicts = <<>>
    /\ IdleTimeline
    /\ IdleClip
    /\ IdleFontCache

NextLayout ==
    \/ \E e \in LayoutElements : AddElement(e)
    \/ ClearElements
    \/ \E canvas \in Canvases : CalculateLayout(canvas)

SpecLayout == InitLayout /\ [][NextLayout]_vars

\* an engine with a default VerticalStackStrategy whose elements are
\* timelines, whose layout properties are set while they are registered
InitProperties ==
    /\ elements = <<>>
    /\ spacing = DefaultSpacing
    /\ start_y = None
    /\ layout_result = NoLayout
    /\ lastop = [op |-> "init", repeat |-> 0, element_id |-> ""]
    /\ conflicts = <<>>
    /\ IdleTimeline
    /\ IdleClip
    /\ IdleFontCache

NextProperties ==
    \/ \E e \in PropertyElements : AddElement(e)
    \/ ClearElements
    \/ \E canvas \in Canvases : CalculateLayout(canvas)
    \/ \E i \in 1..MaxElements, priority \in PropertyPriorities,
          is_flexible \in PropertyFlexibles, element_id \in PropertyIds :
           SetLayoutProperties(i, priority, is_flexible, element_id)

SpecProperties == InitProperties /\ [][NextProperties]_vars

\* an engine whose elements may be fixed in place
InitFlexible ==
    /\ elements = <<>>
    /\ spacing \in Spacings
    /\ start_y \in StartYs
    /\ layout_result = NoLayout
    /\ lastop = [op |-> "init", repeat |-> 0, element_id |-> ""]
    /\ conflicts = <<>>
    /\ IdleTimeline
    /\ IdleClip
    /\ IdleFontCache

NextFlexible ==
    \/ \E e \in FlexibleElements : AddElement(e)
    \/ ClearElements
    \/ \E canvas \in Canvases : CalculateLayout(canvas)

SpecFlexible == InitFlexible /\ [][NextFlexible]_vars

\* an engine whose elements ask for rectangles of their own, checked for
\* conflicts before and after a layout
InitConflicts ==
    /\ elements = <<>>
    /\ spacing \in Spacings
    /\ start_y \in StartYs
    /\ layout_result = NoLayout
    /\ lastop = [op |-> "init", repeat |-> 0, element_id |-> ""]
    /\ conflicts = <<>>
    /\ IdleTimeline
    /\ IdleClip
    /\ IdleFontCache

NextConflicts ==
    \/ \E e \in ConflictElements : AddElement(e)
    \/ ClearElements
    \/ \E canvas \in Canvases : CalculateLayout(canvas)
    \/ \E canvas \in Canvases : DetectConflicts(canvas)

SpecConflicts == InitConflicts /\ [][NextConflicts]_vars

\* a clip is constructed over its timelines and frames are requested in
\* any order
InitClip ==
    /\ timelines \in ClipTimelineLists
    /\ background \in Backgrounds
    /\ frame_buffer \in UninitialisedBuffers
    /\ render_t = NoRender
    /\ video_size = ClipSize
    /\ timeline_positions = TimelinePositions(timelines, ClipSize)
    /\ blends = <<>>
    /\ lastcall = NoCall
    /\ blend_call = NoBlend
    /\ IdleTimeline
    /\ IdleLayout
    /\ IdleFontCache

NextClip == \E t \in (0 - ClipEarly)..ClipTMax : RenderFrame(t)

SpecClip == InitClip /\ [][NextClip]_vars

\* timelines are constructed, a clip is built over them and frames are
\* requested in any order
InitDraw ==
    /\ IdleClip
    /\ IdleTimeline
    /\ IdleLayout
    /\ IdleFontCache

NextDraw ==
    \/ \E entries \in DrawLyrics, display_mode \in LyricDisplayMode :
           ConstructTimeline(entries, display_mode)
    \/ \E i \in 1..MaxTimelines, mode \in LyricDisplayMode,
          y_position \in DrawYPositions :
           SetDisplayMode(i, mode, y_position)
    \/ \E size \in DrawSizes : BuildClip(size)
    \/ \E t \in (0 - DrawEarly)..DrawTMax : RenderFrame(t)

SpecDraw == InitDraw /\ [][NextDraw]_vars

\* a clip over one SIMPLE_FADE timeline, frames are requested in any order
InitRise ==
    /\ \E entries \in RiseLyrics, y_position \in RiseYPositions :
           timelines = <<SimpleFadeTimeline(entries, y_position)>>
    /\ background = NoBackground
    /\ frame_buffer = NoPixels
    /\ render_t = NoRender
    /\ video_size \in DrawSizes
    /\ timeline_positions = TimelinePositions(timelines, video_size)
    /\ blends = <<>>
    /\ lastcall = NoCall
    /\ blend_call = NoBlend
    /\ IdleTimeline
    /\ IdleLayout
    /\ IdleFontCache

NextRise == \E t \in RiseTimes : RenderFrame(t)

SpecRise == InitRise /\ [][NextRise]_vars

\* one _opencv_alpha_blend call on a frame buffer, for every bitmap size and
\* position
InitBlend ==
    /\ timelines = <<>>
    /\ background = NoBackground
    /\ frame_buffer = Uniform(BlendBackground)
    /\ render_t = NoRender
    /\ video_size = ClipSize
    /\ timeline_positions = EmptyDict
    /\ blends = <<>>
    /\ lastcall = NoCall
    /\ \E text_img \in BlendImages, x \in BlendXs, y \in BlendYs,
          alpha_factor \in 1..DefaultAnimationDuration :
           blend_call = [text_img |-> text_img, x |-> x, y |-> y,
                         alpha_factor |-> alpha_factor,
                         done |-> FALSE, raised |-> FALSE]
    /\ IdleTimeline
    /\ IdleLayout
    /\ IdleFontCache

NextBlend == AlphaBlend

SpecBlend == InitBlend /\ [][NextBlend]_vars

\* the process-wide font cache, empty at first, used by several threads
InitFontCache ==
    /\ font_cache = EmptyDict
    /\ font_lock = NoThread
    /\ font_loads = EmptyDict
    /\ threads = [th \in Threads |-> IdleThread]
    /\ IdleTimeline
    /\ IdleLayout
    /\ IdleClip

NextFontCache ==
    \E th \in Threads :
        \/ \E size \in FontSizes : GetFont(th, size)
        \/ AcquireForCheck(th)
        \/ CheckCache(th)
        \/ LoadFont(th)
        \/ AcquireForStore(th)
        \/ StoreFont(th)

SpecFontCache == InitFontCache /\ [][NextFontCache]_vars

----------------------------------------------------------------------------
(* Properties of get_content_at_time *)

Returned(i) == \E k \in 1..Len(active_lyrics) : active_lyrics[k].index = i
EntryOf(i) ==
    active_lyrics[CHOOSE k \in 1..Len(active_lyrics) : active_lyrics[k].index = i]
StartOf(i) == lyrics_data[i + 1].start_time
DurationOf(i) == CalculateLyricDuration(lyrics_data, i, query.max_duration)
Indices == 0..(Len(lyrics_data) - 1)

\* C1: entry i is returned exactly when s_i - A <= t < s_i + d_i
C1_VisibilityWindow ==
    query.called =>
        \A i \in Indices :
            Returned(i) <=>
                /\ StartOf(i) - query.animation_duration <= query.t
                /\ \/ DurationOf(i) = Inf
                   \/ query.t < StartOf(i) + DurationOf(i)

\* C1 witness: the query time is the end of one entry's window, that entry is
\* not returned and the next one is
C1_Witness ==
    /\ query.called
    /\ \E i \in Indices :
        /\ DurationOf(i) # Inf
        /\ DurationOf(i) > 0
        /\ query.t = StartOf(i) + DurationOf(i)
        /\ ~Returned(i)
        /\ Returned(i + 1)

\* C2: every returned animation_progress lies in [0, 1]
C2_ProgressBounds ==
    query.called =>
        \A k \in 1..Len(active_lyrics) :
            /\ 0 <= active_lyrics[k].animation_progress
            /\ active_lyrics[k].animation_progress <= query.animation_duration

\* C2 witness: an entry shorter than A is returned while it fades
C2_Witness ==
    /\ query.called
    /\ \E k \in 1..Len(active_lyrics) :
        /\ active_lyrics[k].duration # Inf
        /\ active_lyrics[k].duration > 0
        /\ active_lyrics[k].duration < query.animation_duration
        /\ active_lyrics[k].animation_progress > 0
        /\ active_lyrics[k].animation_progress < query.animation_duration
        /\ query.t >= active_lyrics[k].start_time

Clamp(v, lo, hi) == Max(lo, Min(hi, v))

\* the progress the specification gives for relative time r, duration d and
\* fade duration A, in units of 1 / A
SpecifiedProgress(r, d, A) ==
    IF r < 0 THEN Clamp(r + A, 0, A)
    ELSE IF d = Inf \/ r <= d - A THEN A
    ELSE Clamp(A - (r - (d - A)), 0, A)

\* C4: the progress of a returned entry is clamp((r + A)/A, 0, 1) for r < 0,
\* 1 for 0 <= r <= d - A and clamp(1 - (r - (d - A))/A, 0, 1) for r > d - A
C4_ProgressFormula ==
    query.called =>
        \A k \in 1..Len(active_lyrics) :
            active_lyrics[k].animation_progress =
                SpecifiedProgress(query.t - active_lyrics[k].start_time,
                                  active_lyrics[k].duration,
                                  query.animation_duration)

\* C4 witness: one entry is fading out while the next is fading in
C4_Witness ==
    /\ query.called
    /\ \E k, m \in 1..Len(active_lyrics) :
        /\ query.t < active_lyrics[m].start_time
        /\ active_lyrics[m].animation_progress > 0
        /\ active_lyrics[m].animation_progress < query.animation_duration
        /\ active_lyrics[k].duration # Inf
        /\ query.t - active_lyrics[k].start_time
               > active_lyrics[k].duration - query.animation_duration
        /\ query.t >= active_lyrics[k].start_time
        /\ active_lyrics[k].animation_progress > 0
        /\ active_lyrics[k].animation_progress < query.animation_duration

ProgressIn(active, i) ==
    active[CHOOSE k \in 1..Len(active) : active[k].index = i].animation_progress
ReturnedIn(active, i) == \E k \in 1..Len(active) : active[k].index = i

\* two successive queries with the same arguments but a later time
LaterQuery ==
    /\ query.called
    /\ query'.called
    /\ lyrics_data' = lyrics_data
    /\ query'.max_duration = query.max_duration
    /\ query'.animation_duration = query.animation_duration
    /\ query.t < query'.t

\* both query times lie in [s1 - A, s0 + d0) of the consecutive entries i, i+1
InOverlap(i) ==
    /\ i + 1 \in Indices
    /\ StartOf(i) < StartOf(i + 1)
    /\ StartOf(i + 1) - query.animation_duration <= query.t
    /\ query'.t < StartOf(i) + DurationOf(i)

BothReturned(i) ==
    /\ ReturnedIn(active_lyrics, i) /\ ReturnedIn(active_lyrics, i + 1)
    /\ ReturnedIn(active_lyrics', i) /\ ReturnedIn(active_lyrics', i + 1)

\* C3 as claimed: in the overlap window of two consecutive entries both are
\* returned, and from an earlier to a later time one progress does not fall
\* while the other does not rise
C3_OverlapMonotonic ==
    [][LaterQuery =>
        \A i \in Indices :
            InOverlap(i) =>
                /\ BothReturned(i)
                /\ \/ /\ ProgressIn(active_lyrics, i)
                            >= ProgressIn(active_lyrics', i)
                      /\ ProgressIn(active_lyrics, i + 1)
                            <= ProgressIn(active_lyrics', i + 1)
                   \/ /\ ProgressIn(active_lyrics, i)
                            <= ProgressIn(active_lyrics', i)
                      /\ ProgressIn(active_lyrics, i + 1)
                            >= ProgressIn(active_lyrics', i + 1)]_vars

\* C3 amended: when d0 >= A, in the overlap window both entries are returned,
\* the incoming entry's progress rises and the outgoing entry's progress falls
C3_OverlapMonotonicLong ==
    [][LaterQuery =>
        \A i \in Indices :
            (InOverlap(i) /\ DurationOf(i) >= query.animation_duration) =>
                /\ BothReturned(i)
                /\ ProgressIn(active_lyrics, i) > ProgressIn(active_lyrics', i)
                /\ ProgressIn(active_lyrics, i + 1)
                       < ProgressIn(active_lyrics', i + 1)]_vars

\* C3 witness: a query strictly inside the overlap window of two entries at
\* least A apart, both returned and both part-way through their fades
C3_Witness ==
    /\ query.called
    /\ \E i \in Indices :
        /\ i + 1 \in Indices
        /\ DurationOf(i) >= query.animation_duration
        /\ StartOf(i + 1) - query.animation_duration < query.t
        /\ query.t < StartOf(i + 1)
        /\ Returned(i) /\ Returned(i + 1)
        /\ EntryOf(i).animation_progress > 0
        /\ EntryOf(i).animation_progress < query.animation_duration
        /\ EntryOf(i + 1).animation_progress > 0
        /\ EntryOf(i + 1).animation_progress < query.animation_duration

\* Scenario A: entries at 0.0, 2.5 and 5.0, fade duration 0.3
ScenarioA(t) ==
    /\ query.called
    /\ [i \in 1..Len(lyrics_data) |-> lyrics_data[i].start_time] = <<0, 25, 50>>
    /\ query.animation_duration = 3
    /\ query.t = t

\* C5 as claimed: at t = 2.2 only A is returned, with progress 1.0
C5_OnlyAVisible ==
    ScenarioA(22) =>
        /\ Len(active_lyrics) = 1
        /\ active_lyrics[1].index = 0
        /\ active_lyrics[1].animation_progress = query.animation_duration

\* C5 amended: at t = 2.2 A is returned with progress 1.0 and B, whose window
\* opens at that instant, is returned with progress 0.0; nothing else is
C5_AFullBEntering ==
    ScenarioA(22) =>
        /\ Len(active_lyrics) = 2
        /\ active_lyrics[1].index = 0
        /\ active_lyrics[1].animation_progress = query.animation_duration
        /\ active_lyrics[2].index = 1
        /\ active_lyrics[2].animation_progress = 0

\* C5 witness: Scenario A queried at t = 2.2
C5_Witness == ScenarioA(22) /\ Len(active_lyrics) > 0

\* C6: at t = 2.5 the progress of A is 0, B is returned with progress 1 and
\* no other returned entry has a progress above 0
C6_AGoneBFull ==
    ScenarioA(25) =>
        /\ CalculateAnimationProgress(query.t, StartOf(0), DurationOf(0),
                                      query.animation_duration) = 0
        /\ Returned(1)
        /\ EntryOf(1).animation_progress = query.animation_duration
        /\ \A k \in 1..Len(active_lyrics) :
               active_lyrics[k].index # 1 =>
                   active_lyrics[k].animation_progress = 0

\* C6 witness: Scenario A queried at t = 2.5
C6_Witness == ScenarioA(25) /\ Returned(1)

LastIndex == Len(lyrics_data) - 1

\* C21 as claimed: the duration of every entry but the last is the next start
\* time minus its own; the last entry's is the bound minus its start time when
\* a bound is given, and it is not returned from the bound on, and is 3 s
\* when no bound is given
C21_Durations ==
    query.called =>
        \A i \in Indices :
            IF i < LastIndex
            THEN DurationOf(i) = StartOf(i + 1) - StartOf(i)
            ELSE IF query.max_duration # Inf
            THEN /\ DurationOf(i) = query.max_duration - StartOf(i)
                 /\ query.t >= query.max_duration => ~Returned(i)
            ELSE DurationOf(i) = DefaultDuration

\* C22 as claimed: an entry whose duration is not positive is returned at no
\* query time
C22_NonPositiveDropped ==
    query.called =>
        \A i \in Indices :
            (DurationOf(i) # Inf /\ DurationOf(i) <= 0) => ~Returned(i)

\* consecutive start times are at least the fade duration of the query apart
Spaced ==
    \A i \in Indices :
        i + 1 \in Indices =>
            StartOf(i + 1) - StartOf(i) >= query.animation_duration

\* C30: on a track whose consecutive start times are at least A apart
\* get_content_at_time returns at most two entries, which are adjacent when
\* they are two, and with no duration bound it returns at least one entry at
\* every time from the first start time on
C30_AtMostTwo ==
    (query.called /\ Spaced) =>
        /\ Len(active_lyrics) <= 2
        /\ Len(active_lyrics) = 2 =>
               active_lyrics[2].index = active_lyrics[1].index + 1
        /\ (/\ query.max_duration = Inf
            /\ Len(lyrics_data) > 0
            /\ query.t >= StartOf(0)) => Len(active_lyrics) >= 1

\* C30 witness: three entries exactly A apart, queried at the instant the
\* first one leaves and the window of the third one opens
C30_Witness ==
    /\ query.called
    /\ Len(lyrics_data) = 3
    /\ StartOf(1) - StartOf(0) = query.animation_duration
    /\ StartOf(2) - StartOf(1) = query.animation_duration
    /\ query.t = StartOf(1)
    /\ Len(active_lyrics) = 2
    /\ active_lyrics[1].index = 1

\* the lines of a text that are not blank
NonBlankLines(text) == {j \in 1..Len(text) : text[j] > 0}
HasText(entry) == NonBlankLines(entry.text) # {}

\* the entries of a list that are not blank, each as its time and its text
Shown(active) ==
    LET shown == SelectSeq(active, HasText)
    IN  [k \in 1..Len(shown) |-> <<shown[k].start_time, shown[k].text>>]

\* C23 as claimed: a blank entry is returned at no query time, and the other
\* entries are returned at the times at which a timeline constructed without
\* the blank entries returns them
C23_BlankDropped ==
    query.called =>
        /\ \A k \in 1..Len(active_lyrics) : HasText(active_lyrics[k])
        /\ Shown(active_lyrics) =
               Shown(GetContentAtTime(SelectSeq(lyrics_data, HasText), query.t,
                                      query.max_duration,
                                      query.animation_duration))

\* the number of non-blank lines of the entries that have one
LineCounts ==
    {Cardinality(NonBlankLines(lyrics_data[i].text)) :
        i \in {j \in 1..Len(lyrics_data) : HasText(lyrics_data[j])}}

\* C24: max_lines is the largest number of non-blank lines of an entry that
\* has one, and 1 when there is no such entry; get_processed_lyrics returns
\* the entries that have a non-blank line and start before max_duration, with
\* their non-blank lines, and no blank entry
C24_MaxLines ==
    /\ max_lines \in LineCounts \cup {1}
    /\ \A n \in LineCounts : n <= max_lines
    /\ processed_call.called =>
           LET Listed(entry) ==
                   /\ HasText(entry)
                   /\ \/ processed_call.max_duration = Inf
                      \/ entry.start_time < processed_call.max_duration
               listed == SelectSeq(lyrics_data, Listed)
               result == processed_call.result
           IN  /\ Len(result) = Len(listed)
               /\ \A k \in 1..Len(result) :
                      /\ result[k].timestamp = listed[k].start_time
                      /\ Len(result[k].lines)
                             = Cardinality(NonBlankLines(listed[k].text))
                      /\ \A j \in 1..Len(result[k].lines) :
                             result[k].lines[j] > 0

\* C24 witness: a timeline with an entry of three blank lines between entries
\* of one and of two lines was asked for its processed lyrics up to a bound
\* that cuts its last entry off
C24_Witness ==
    /\ processed_call.called
    /\ processed_call.max_duration # Inf
    /\ Len(lyrics_data) = 3
    /\ \E i \in 1..Len(lyrics_data) : ~HasText(lyrics_data[i])
    /\ max_lines = 2
    /\ Len(processed_call.result) = 1
    /\ Len(processed_lyrics) = 2

----------------------------------------------------------------------------
(* Properties of the layout engine *)

Positions == layout_result.element_positions
IdOf(i) == elements[i].element_id
Registered == 1..Len(elements)
LaidOut == lastop.op = "calculate_layout"

\* C8 as claimed: after calculate_layout no two registered elements have
\* rectangles that overlap according to overlaps_with
C8_NoOverlap ==
    LaidOut =>
        \A i, j \in Registered :
            i # j =>
                /\ IdOf(i) \in DOMAIN Positions
                /\ IdOf(j) \in DOMAIN Positions
                /\ ~OverlapsWith(Positions[IdOf(i)], Positions[IdOf(j)])

\* C9: calculate_layout changes neither the elements nor the strategy, and a
\* second call right after a first returns the same result for the same canvas
C9_Idempotent ==
    [][/\ lastop'.op = "calculate_layout" =>
              /\ elements' = elements
              /\ spacing' = spacing
              /\ start_y' = start_y
       /\ (/\ lastop.op = "calculate_layout"
           /\ lastop'.op = "calculate_layout"
           /\ layout_result'.canvas = layout_result.canvas) =>
              layout_result' = layout_result]_vars

\* C9 witness: calculate_layout was called twice in a row on elements that
\* are not registered in priority order
C9_Witness ==
    /\ LaidOut
    /\ lastop.repeat >= 1
    /\ \E i, j \in Registered :
           i < j /\ elements[i].priority > elements[j].priority

RECURSIVE RequiredHeightSum(_)
RequiredHeightSum(elems) ==
    IF Len(elems) = 0 THEN 0
    ELSE Head(elems).required_rect.height + RequiredHeightSum(Tail(elems))

Orders == {f \in [Registered -> Registered] :
              \A a, b \in Registered : a # b => f[a] # f[b]}

ScenarioB ==
    /\ LaidOut
    /\ Len(elements) = 2
    /\ {<<elements[i].priority, elements[i].required_rect.height>> :
            i \in Registered} = {<<1, 100>>, <<10, 60>>}
    /\ spacing = 30
    /\ start_y = None
    /\ layout_result.canvas.video_height = 720

\* C10: the elements are stacked in ascending priority order from start_y, or
\* from (video_height - total_height) // 2, each one spacing below the one
\* before it, keeping x, width and height; Scenario B gives y = 265 and y = 395
C10_Stacking ==
    /\ (LaidOut /\ Len(elements) > 0) =>
        LET total_height == RequiredHeightSum(elements)
                                + spacing * (Len(elements) - 1)
            first_y == IF start_y # None THEN Val(start_y)
                       ELSE (layout_result.canvas.video_height - total_height)
                                \div 2
        IN  /\ DOMAIN Positions = {IdOf(i) : i \in Registered}
            /\ \A i \in Registered :
                /\ Positions[IdOf(i)].x = elements[i].required_rect.x
                /\ Positions[IdOf(i)].width = elements[i].required_rect.width
                /\ Positions[IdOf(i)].height = elements[i].required_rect.height
            /\ \E f \in Orders :
                /\ \A k \in Registered :
                       k + 1 \in Registered =>
                           /\ elements[f[k]].priority <= elements[f[k + 1]].priority
                           /\ Positions[IdOf(f[k + 1])].y =
                                  Positions[IdOf(f[k])].y
                                      + elements[f[k]].required_rect.height
                                      + spacing
                /\ Positions[IdOf(f[1])].y = first_y
    /\ ScenarioB =>
        \A i \in Registered :
            /\ elements[i].priority = 1 =>
                   Positions[IdOf(i)].y = 265 /\ Positions[IdOf(i)].height = 100
            /\ elements[i].priority = 10 =>
                   Positions[IdOf(i)].y = 395 /\ Positions[IdOf(i)].height = 60

\* C10 witness: Scenario B with the priority 10 element registered first
C10_Witness ==
    /\ ScenarioB
    /\ elements[1].priority = 10

\* the registered elements in another registration order
Reordered(f) == [i \in Registered |-> elements[f[i]]]

\* C11 as claimed: the positions calculate_layout returns are the positions
\* it returns for every other registration order of the same elements
C11_OrderIndependent ==
    LaidOut =>
        \A f \in Orders :
            ArrangeElements(Reordered(f), spacing, start_y,
                            layout_result.canvas.video_width,
                            layout_result.canvas.video_height) = Positions

\* C12 as claimed: every assigned rectangle lies within the canvas height
C12_WithinCanvas ==
    LaidOut =>
        \A id \in DOMAIN Positions :
            /\ 0 <= Positions[id].y
            /\ Positions[id].y + Positions[id].height
                   <= layout_result.canvas.video_height

\* C27 as claimed: calculate_layout assigns to an element that is not
\* flexible the rectangle it asks for
C27_FixedInPlace ==
    LaidOut =>
        \A i \in Registered :
            ~elements[i].is_flexible =>
                /\ IdOf(i) \in DOMAIN Positions
                /\ Positions[IdOf(i)] = elements[i].required_rect

\* C28 as claimed: the ids of the registered elements are pairwise distinct,
\* and calculate_layout returns one position for each registered element
C28_DistinctIds ==
    /\ \A i, j \in Registered : i # j => IdOf(i) # IdOf(j)
    /\ LaidOut =>
           /\ \A i \in Registered : IdOf(i) \in DOMAIN Positions
           /\ Cardinality(DOMAIN Positions) = Len(elements)

RegisteredIds == {IdOf(i) : i \in Registered}

\* C13: add_element raises exactly when the id is registered already and then
\* leaves the element list as it was; otherwise the list grows by the element
\* at its end
C13_AddElement ==
    [][lastop'.op \in {"add_element", "add_element_raised"} =>
          IF lastop'.element_id \in RegisteredIds
          THEN /\ lastop'.op = "add_element_raised"
               /\ elements' = elements
          ELSE /\ lastop'.op = "add_element"
               /\ Len(elements') = Len(elements) + 1
               /\ SubSeq(elements', 1, Len(elements)) = elements
               /\ elements'[Len(elements')].element_id = lastop'.element_id]_vars

\* C13 witness: add_element has raised for the id of an element that is not
\* the last one registered
C13_Witness ==
    /\ lastop.op = "add_element_raised"
    /\ Len(elements) >= 2
    /\ lastop.element_id = IdOf(1)

\* the notes that name the elements a and b, in either order
NotesOf(notes, a, b) ==
    {k \in 1..Len(notes) : {notes[k].id1, notes[k].id2} = {a, b}}

OverlappingPairs ==
    {pair \in Registered \X Registered :
        /\ pair[1] < pair[2]
        /\ OverlapsWith(elements[pair[1]].required_rect,
                        elements[pair[2]].required_rect)}

\* C14: detect_conflicts changes nothing and returns one note for each pair of
\* registered elements whose required rectangles overlap and no other note,
\* whatever the strategy and whatever was called before
C14_DetectConflicts ==
    [][lastop'.op = "detect_conflicts" =>
          /\ elements' = elements
          /\ spacing' = spacing
          /\ start_y' = start_y
          /\ Len(conflicts') = Cardinality(OverlappingPairs)
          /\ \A i, j \in Registered :
                 i < j =>
                     Cardinality(NotesOf(conflicts', IdOf(i), IdOf(j))) =
                         IF <<i, j>> \in OverlappingPairs THEN 1 ELSE 0]_vars

\* C14 witness: three elements of which two overlap the third and not each
\* other, checked under a strategy with a spacing and a start position
C14_Witness ==
    /\ lastop.op = "detect_conflicts"
    /\ Len(elements) = 3
    /\ Len(conflicts) = 2
    /\ spacing > 0
    /\ start_y # None

----------------------------------------------------------------------------
(* Properties of the font cache *)

\* C15 as claimed: whatever the interleaving, the font of a cache key is
\* loaded at most once
C15_OneCreation ==
    \A cache_key \in DOMAIN font_loads : font_loads[cache_key] <= 1

\* C16 as claimed: a cache entry, once stored, is neither replaced nor removed
C16_NeverReplaced ==
    [][\A cache_key \in DOMAIN font_cache :
           /\ cache_key \in DOMAIN font_cache'
           /\ font_cache'[cache_key] = font_cache[cache_key]]_vars

----------------------------------------------------------------------------
(* Properties of the frame renderer *)

Rendered == lastcall.op = "render_frame"

\* the place in the clip's timeline list of the track a blend belongs to
TrackOf(blend) ==
    CHOOSE i \in 1..Len(timelines) : timelines[i].element_id = blend.element_id

\* C17: the blends of a frame are made track by track in the order of the
\* clip's timeline list, and within a track in ascending start_time order
C17_BlendOrder ==
    Rendered =>
        \A a, b \in 1..Len(blends) :
            a < b =>
                \/ TrackOf(blends[a]) < TrackOf(blends[b])
                \/ /\ TrackOf(blends[a]) = TrackOf(blends[b])
                   /\ blends[a].start_time <= blends[b].start_time
                   /\ blends[a].index < blends[b].index

\* C17 witness: a frame with the outgoing and the incoming entry of the first
\* track, both part-way through their fades, and an entry of the second track
C17_Witness ==
    /\ Rendered
    /\ Len(blends) >= 3
    /\ TrackOf(blends[1]) = 1 /\ TrackOf(blends[2]) = 1
    /\ blends[1].start_time < blends[2].start_time
    /\ blends[1].animation_progress < DefaultAnimationDuration
    /\ blends[2].animation_progress < DefaultAnimationDuration
    /\ TrackOf(blends[Len(blends)]) = 2

\* C18 as claimed: every blend of a track that has an assigned rectangle
\* falls within the rows of that rectangle
C18_DrawnInAssignedRect ==
    Rendered =>
        \A k \in 1..Len(blends) :
            blends[k].element_id \in DOMAIN timeline_positions =>
                LET rect == timeline_positions[blends[k].element_id]
                IN  /\ rect.y <= blends[k].box.y
                    /\ blends[k].box.end_y <= rect.y + rect.height

\* C20 as claimed: the constructor and set_display_mode raise for a mode
\* without a strategy, no timeline holds such a mode when a frame is
\* rendered, and rendering does not raise
C20_ModeRejectedEarly ==
    /\ (/\ lastcall.op \in {"construct", "set_display_mode"}
        /\ lastcall.display_mode \notin SupportedModes) => lastcall.raised
    /\ Rendered =>
           /\ ~lastcall.raised
           /\ \A i \in 1..Len(timelines) :
                  timelines[i].display_mode \in SupportedModes

ErasedPixel == IF background.present THEN background.pixels[<<0, 0>>] ELSE 0

\* the lyrics render gets for timeline i at the time of the last frame
ActiveOf(i) ==
    GetContentAtTime(timelines[i].lyrics_data, render_t.t, Inf,
                     DefaultAnimationDuration)

\* the blends of the last frame made for a lyric of timeline i
BlendsFor(i, lyric) ==
    {b \in 1..Len(blends) :
        /\ blends[b].element_id = timelines[i].element_id
        /\ blends[b].index = lyric.index}

\* C25: render blends nothing for a lyric whose progress is below 0.001, and
\* blends a lyric whose progress is 0.001 or more and whose bitmap is not
\* empty exactly once
C25_SkipInvisible ==
    Rendered =>
        \A i \in 1..Len(timelines) :
            \A k \in 1..Len(ActiveOf(i)) :
                LET lyric == ActiveOf(i)[k]
                IN  IF lyric.animation_progress * 1000 < DefaultAnimationDuration
                    THEN BlendsFor(i, lyric) = {}
                    ELSE HasText(lyric) =>
                             Cardinality(BlendsFor(i, lyric)) = 1

\* C25 witness: a frame at the instant the window of one entry opens, while
\* the entry before it is drawn
C25_Witness ==
    /\ Rendered
    /\ \E k, m \in 1..Len(ActiveOf(1)) :
        /\ ActiveOf(1)[k].animation_progress = 0
        /\ HasText(ActiveOf(1)[k])
        /\ ActiveOf(1)[m].animation_progress > 0
        /\ Cardinality(BlendsFor(1, ActiveOf(1)[m])) = 1
        /\ \E px \in Pixels : frame_buffer[px] # ErasedPixel

\* the display mode of a timeline is one with a strategy, and the strategy
\* the timeline holds is that one
ModeMatchesStrategy(tl) ==
    /\ tl.display_mode \in SupportedModes
    /\ tl.strategy.type = SetupStrategy(tl.display_mode).type

\* C29 as claimed: a set_display_mode call that raises leaves the display
\* mode and the strategy as they were, and every timeline holds a supported
\* display mode that matches its strategy
C29_FailedSwitchKeepsState ==
    [][/\ (lastcall'.op = "set_display_mode" /\ lastcall'.raised) =>
              timelines' = timelines
       /\ \A i \in 1..Len(timelines') : ModeMatchesStrategy(timelines'[i])]_vars

\* the height of the bitmap of a blend: the lines of its text, blank or not,
\* times the line height
BitmapHeight(blend) ==
    LET tl == timelines[TrackOf(blend)]
    IN  Len(tl.lyrics_data[blend.index + 1].text) * LineHeight(tl.font_size)

\* C26 as claimed: on a SimpleFade track every bitmap is drawn, from the top
\* y_pos - textHeight // 2 + rise offset down, within the rectangle
\* calculate_required_rect returns
C26_RiseInsideRect ==
    Rendered =>
        \A k \in 1..Len(blends) :
            LET tl == timelines[TrackOf(blends[k])]
                rect == CalculateRequiredRect(tl, video_size)
                top == blends[k].requested.y
            IN  tl.strategy.type = "SimpleFadeStrategy" =>
                    /\ rect.height = tl.max_lines * LineHeight(tl.font_size)
                                         + 2 * ANIMATION_VERTICAL_OFFSET
                    /\ rect.y <= top
                    /\ top + BitmapHeight(blends[k]) <= rect.y + rect.height

\* the pixels an _opencv_alpha_blend call has changed
Written == {px \in Pixels : frame_buffer[px] # BlendBackground}

\* where the pixels of a bitmap of length len asked for at position pos may
\* fall along an axis of length n: at the position asked for when it fits
\* there, else at the edge it would cross, never at the opposite one
Clamped(i, pos, len, n) ==
    /\ (0 <= pos /\ pos + len <= n) => (pos <= i /\ i < pos + len)
    /\ pos < 0 => i < Min(len, n)
    /\ pos + len > n => i >= n - Min(len, n)

\* C19: _opencv_alpha_blend does not raise, and the pixels it writes lie in
\* the frame at the requested position, moved to the nearer edge when the
\* bitmap would cross it
C19_BlendClipped ==
    blend_call.done =>
        /\ ~blend_call.raised
        /\ \A px \in Written :
               /\ Clamped(px[1], blend_call.y, blend_call.text_img.height,
                          ClipHeight)
               /\ Clamped(px[2], blend_call.x, blend_call.text_img.width,
                          ClipWidth)

\* C19 witness: a bitmap higher than the frame, asked for left of and above
\* the frame, has been blended onto a part of it
C19_Witness ==
    /\ blend_call.done
    /\ blend_call.text_img.height > ClipHeight
    /\ blend_call.x < 0
    /\ blend_call.y < 0
    /\ Written # {}
    /\ Written # Pixels

\* the same timelines as constructed, before any frame was rendered
FreshTimelines ==
    [i \in 1..Len(timelines) |->
        [timelines[i] EXCEPT !.text_cache = EmptyDict,
                             !.cache_initialized = FALSE]]

\* C7: the frame returned for time t is the frame a freshly constructed clip
\* over the same timelines and background returns for t as its first frame,
\* whatever its buffer held before
C7_RandomAccess ==
    render_t.called =>
        \A buffer \in UninitialisedBuffers :
            frame_buffer =
                RenderFrameOf(FreshTimelines, background, buffer, render_t.t,
                              video_size).frame

\* C7 witness: a frame requested for an earlier time than the frame before
\* it, with text drawn on it and part of the canvas left as erased
C7_Witness ==
    /\ render_t.called
    /\ render_t.rewound
    /\ \E px \in Pixels : frame_buffer[px] # ErasedPixel
    /\ \E px \in Pixels : frame_buffer[px] = ErasedPixel

====
